---- MODULE Spec2Model ----
(***************************************************************************)
(* State-machine model of ArUcoMarkerDetector (ArUcoMarkerDetector.cpp):   *)
(* the detection store _detectedMarkers, the operation DetectMarkers that  *)
(* rewrites it, the two queries GetDetectedMarkerIds and                   *)
(* GetDetectedMarkerPose, and the mask routine GetDilatedMask.             *)
(*                                                                         *)
(* OpenCV (cvtColor, detectMarkers, estimatePoseSingleMarkers, dilate) is  *)
(* outside the repository.  detectMarkers / estimatePoseSingleMarkers are  *)
(* modelled by their result: an arbitrary sequence of decoded ids with one *)
(* translation and one rotation vector per id.  cv::dilate is modelled by  *)
(* its documented result for a 3x3 rectangular kernel.                     *)
(*                                                                         *)
(* Numbers: a double is modelled as an integer (its value in units of the  *)
(* last place kept), a float as a double with one bit less of mantissa.    *)
(***************************************************************************)
EXTENDS Integers, Sequences, FiniteSets, TLC

\* ------------------------------------------------------------------ bounds
\* longest result sequence cv::aruco::detectMarkers returns in one pass
MaxMarkers == 2
\* marker ids the dictionary can decode are 0..MaxId
MaxId == 1
\* longest result sequence of a pass in the interleaved specification
MaxRaceMarkers == 2
\* a mask has 1..MaxDim rows and 1..MaxDim columns
MaxDim == 2
\* mask labels are 0..MaxLabel
MaxLabel == 2
\* distortion coefficients handed in by the caller are 0..MaxCoeff
MaxCoeff == 2

VARIABLES
    _detectedMarkers,     \* the store: marker id -> Marker
    iterOrder,            \* order in which the container iterates its keys
    arUcoMarkerIds,       \* DetectMarkers local: ids decoded by the latest pass
    translationVecs,      \* DetectMarkers local: one Vec3d per decoded id
    rotationVecs,         \* DetectMarkers local: one Vec3d per decoded id
    distCoeffMatrix,      \* DetectMarkers local: 1x5 matrix given to the solver
    radialDistortion,     \* caller's float[3] of the latest DetectMarkers call
    tangentialDistortion, \* caller's float[2] of the latest DetectMarkers call
    lastCall,             \* the most recently returned call: op, its int
                          \* argument, whether a DetectMarkers was in flight,
                          \* how many stored ids it removed
    ret,                  \* its return value
    _detectedIds,         \* its int* output buffer, as the caller sees it
    position,             \* its Vector3* position output
    rotation,             \* its Vector3* rotation output
    pc,                   \* stepwise DetectMarkers: "idle" or "loop"
    loopIndex,            \* stepwise DetectMarkers: the loop variable i
    prevStore,            \* stepwise DetectMarkers: store content at line 93
    mask,                 \* GetDilatedMask: the caller's mask buffer
    maskCols,             \* GetDilatedMask: argument col
    maskRows,             \* GetDilatedMask: argument row
    dilatedMask,          \* GetDilatedMask local: what cv::dilate wrote
    maskRet               \* GetDilatedMask: content of the returned buffer

storeVars == <<_detectedMarkers, iterOrder, arUcoMarkerIds, translationVecs,
               rotationVecs, distCoeffMatrix, radialDistortion,
               tangentialDistortion>>
callVars == <<lastCall, ret, _detectedIds, position, rotation>>
stepVars == <<pc, loopIndex, prevStore>>
maskVars == <<mask, maskCols, maskRows, dilatedMask, maskRet>>
vars == <<storeVars, callVars, stepVars, maskVars>>

\* ----------------------------------------------------------- input domains
MarkerIds == 0..MaxId
\* ids a caller asks about: every decodable id and one that never is
QueryIds == 0..(MaxId + 1)
\* capacities a caller passes: negative, zero, and up to one past a full store
Capacities == (0 - 2)..(MaxId + 2)

\* estimatePoseSingleMarkers returns one (tvec, rvec) per marker, index-aligned.
\* A pass is modelled with one of these pose tracks: track b gives the marker at
\* index i the pose PoseAt(b, i); poses at different indices of a pass differ.
PoseTracks == {0, 1}

PoseAt(b, i) == [t |-> <<b + i, 2 * i, b - i>>, r |-> <<i, b * i + 1, 0 - (i + b)>>]

SeqsUpTo(S, n) == UNION { [1..k -> S] : k \in 0..n }

ResultsOf(idSeqs, tracks) ==
    { [i \in DOMAIN ids |-> [id |-> ids[i], pose |-> PoseAt(b, i)]] :
        ids \in idSeqs, b \in tracks }

\* results of one detection pass (ids may repeat, order is the detector's)
DetectorResults == ResultsOf(SeqsUpTo(MarkerIds, MaxMarkers), PoseTracks)

\* results of a pass in the interleaved specification
RaceResults == ResultsOf(SeqsUpTo(MarkerIds, MaxRaceMarkers), {1})

\* camera parameters of the serialized specification
RadialInputs == { <<1, 2, 0>> }
TangentialInputs == { <<0, 1>> }

Range(s) == { s[i] : i \in DOMAIN s }

\* all orders in which a container holding the keys S can iterate them
RECURSIVE Perms(_)
Perms(S) ==
    IF S = {} THEN { <<>> }
    ELSE UNION { { <<x>> \o p : p \in Perms(S \ {x}) } : x \in S }

\* an output location the callee has not written
Unwritten == <<>>
\* memory behind the int* buffer: one slot more than the store can ever fill.
\* The loop at lines 126-131 never looks at the capacity, so a write lands in
\* this memory whatever size the caller announced.
BufferSlots == 0..(MaxId + 1)
BlankBuffer == [idx \in BufferSlots |-> Unwritten]

\* ---------------------------------------------------------------- helpers
\* static_cast<float>(double): round to nearest, ties to even, one bit dropped
StaticCastFloat(d) ==
    LET q == d \div 2
    IN  IF d % 2 = 0 THEN d
        ELSE IF q % 2 = 0 THEN 2 * q ELSE 2 * (q + 1)

Narrow(v) == <<StaticCastFloat(v[1]), StaticCastFloat(v[2]), StaticCastFloat(v[3])>>

\* lines 104-111 with marker.id taken from the loop index instead of the id
MakeMarkerIndexAsId(id, tvec, rvec, i) ==
    [id |-> i - 1, position |-> Narrow(tvec), rotation |-> Narrow(rvec)]

\* lines 104-111: the Marker built in iteration i (i is 1-based here)
MakeMarker(id, tvec, rvec, i) ==
    [id |-> id, position |-> Narrow(tvec), rotation |-> Narrow(rvec)]

\* line 112 written as an insert that keeps an existing entry
InsertMarkerKeepFirst(store, id, marker) ==
    [k \in DOMAIN store \cup {id} |->
        IF k \in DOMAIN store THEN store[k] ELSE marker]

\* line 112: _detectedMarkers[id] = marker
InsertMarker(store, id, marker) ==
    [k \in DOMAIN store \cup {id} |-> IF k = id THEN marker ELSE store[k]]

\* line 93 left out
ClearStoreSkipped(store) == store

\* line 93: _detectedMarkers.clear()
ClearStore(store) == <<>>

\* lines 94-113: the loop from iteration i on
RECURSIVE InsertLoop(_, _, _, _, _)
InsertLoop(store, ids, tvecs, rvecs, i) ==
    IF i > Len(ids) THEN store
    ELSE InsertLoop(InsertMarker(store, ids[i],
                                 MakeMarker(ids[i], tvecs[i], rvecs[i], i)),
                    ids, tvecs, rvecs, i + 1)

\* lines 93-113
PopulateStore(store, ids, tvecs, rvecs) ==
    InsertLoop(ClearStore(store), ids, tvecs, rvecs, 1)

\* lines 75-80 with the third radial term kept next to the other two
DistCoeffsContiguous(radial, tangential) ==
    <<radial[1], radial[2], radial[3], tangential[1], tangential[2]>>

\* lines 75-80: the 1x5 matrix, columns 0..4
DistCoeffs(radial, tangential) ==
    <<radial[1], radial[2], tangential[1], tangential[2], radial[3]>>

\* line 115 written as "found something"
DetectMarkersResultNonEmpty(ids) == Len(ids) > 0

\* line 115: return true
DetectMarkersResult(ids) == TRUE

\* n shifted right by 16*k bits (arithmetic shift)
RECURSIVE ShiftRight16(_, _)
ShiftRight16(n, k) == IF k = 0 THEN n ELSE ShiftRight16(n \div (2 ^ 16), k - 1)

\* static_cast<size_t>(n) for a 64-bit size_t, as four 16-bit limbs,
\* limb 0 least significant; a negative int is sign-extended
SizeT(n) == [k \in 0..3 |-> ShiftRight16(n, k) % (2 ^ 16)]

\* a > b on size_t values
SizeTGreater(a, b) ==
    \E k \in 0..3 : a[k] > b[k] /\ \A j \in (k + 1)..3 : a[j] = b[j]

\* line 120: _detectedMarkers.size() > static_cast<size_t>(size)
CapacityTooSmall(count, size) == SizeTGreater(SizeT(count), SizeT(size))

\* lines 125-131 with index starting at 1
WriteIdsSkipFirst(buffer, store, order) ==
    [idx \in DOMAIN buffer |->
        IF 0 < idx /\ idx < Len(order) THEN <<store[order[idx + 1]].id>>
        ELSE buffer[idx]]

\* lines 125-131: the buffer after the loop over the container
WriteIds(buffer, store, order) ==
    [idx \in DOMAIN buffer |->
        IF idx < Len(order) THEN <<store[order[idx + 1]].id>>
        ELSE buffer[idx]]

\* lines 138-143 with operator[] in place of find/at
StoreAfterLookupInserting(store, id) ==
    IF id \in DOMAIN store THEN store
    ELSE InsertMarker(store, id,
                      [id |-> 0, position |-> <<0, 0, 0>>, rotation |-> <<0, 0, 0>>])

\* lines 138-143: find and at leave the container as it is
StoreAfterLookup(store, id) == store

\* lines 145-146 with the two destinations exchanged
CopyPoseSwapped(marker) == [position |-> marker.rotation, rotation |-> marker.position]

\* lines 145-146: the two memcpy_s calls
CopyPose(marker) == [position |-> marker.position, rotation |-> marker.rotation]

\* cv::dilate with the 3x3 MORPH_RECT kernel anchored at (1, 1): every pixel
\* becomes the maximum over its neighbourhood, pixels outside the image ignored.
\* The mask is row-major, pixel (r, c) at index r * cols + c + 1.
SetMax(S) == CHOOSE x \in S : \A y \in S : y <= x

Dilate3x3(m, cols, rows) ==
    [idx \in 1..(rows * cols) |->
        LET r == (idx - 1) \div cols
            c == (idx - 1) % cols
        IN  SetMax({ m[rr * cols + cc + 1] :
                       rr \in {r - 1, r, r + 1} \cap 0..(rows - 1),
                       cc \in {c - 1, c, c + 1} \cap 0..(cols - 1) })]

\* line 168: return mask
ReturnedBuffer(maskBuf, dilatedBuf) == maskBuf

\* how many of the ids stored before a call are gone after it
Dropped(before, after) == Cardinality(DOMAIN before \ DOMAIN after)

\* ------------------------------------------------------------------- Init
\* a freshly constructed detector (line 5) and a caller that has called nothing
InitDetector ==
    /\ _detectedMarkers = <<>>
    /\ iterOrder = <<>>
    /\ arUcoMarkerIds = <<>>
    /\ translationVecs = <<>>
    /\ rotationVecs = <<>>
    /\ distCoeffMatrix = <<>>
    /\ lastCall = [op |-> "none", arg |-> 0, racing |-> FALSE, dropped |-> 0]
    /\ ret = FALSE
    /\ _detectedIds = BlankBuffer
    /\ position = Unwritten
    /\ rotation = Unwritten
    /\ pc = "idle"
    /\ loopIndex = 0
    /\ prevStore = <<>>

NoCameraYet ==
    /\ radialDistortion = <<>>
    /\ tangentialDistortion = <<>>

NoMaskYet ==
    /\ mask = <<>>
    /\ maskCols = 0
    /\ maskRows = 0
    /\ dilatedMask = <<>>
    /\ maskRet = <<>>

Init == InitDetector /\ NoCameraYet /\ NoMaskYet

\* ---------------------------------------------------------------- actions
\* lines 25-116, run to completion; res is what OpenCV found in the frame
DetectMarkers(res, radial, tangential) ==
    /\ pc = "idle"
    /\ arUcoMarkerIds' = [i \in DOMAIN res |-> res[i].id]
    /\ translationVecs' = [i \in DOMAIN res |-> res[i].pose.t]
    /\ rotationVecs' = [i \in DOMAIN res |-> res[i].pose.r]
    /\ radialDistortion' = radial
    /\ tangentialDistortion' = tangential
    /\ distCoeffMatrix' = DistCoeffs(radial, tangential)
    /\ _detectedMarkers' =
         PopulateStore(_detectedMarkers, arUcoMarkerIds', translationVecs',
                       rotationVecs')
    /\ iterOrder' \in Perms(DOMAIN _detectedMarkers')
    /\ lastCall' = [op |-> "detect", arg |-> 0, racing |-> FALSE,
                    dropped |-> Dropped(_detectedMarkers, _detectedMarkers')]
    /\ ret' = DetectMarkersResult(arUcoMarkerIds')
    /\ _detectedIds' = BlankBuffer
    /\ position' = Unwritten
    /\ rotation' = Unwritten
    /\ UNCHANGED <<stepVars, maskVars>>

\* lines 118-134
GetDetectedMarkerIds(size) ==
    /\ lastCall' = [op |-> "ids", arg |-> size, racing |-> pc # "idle",
                    dropped |-> 0]
    /\ IF CapacityTooSmall(Cardinality(DOMAIN _detectedMarkers), size)
       THEN /\ ret' = FALSE
            /\ _detectedIds' = BlankBuffer
       ELSE /\ ret' = TRUE
            /\ _detectedIds' = WriteIds(BlankBuffer, _detectedMarkers, iterOrder)
    /\ position' = Unwritten
    /\ rotation' = Unwritten
    /\ UNCHANGED <<storeVars, stepVars, maskVars>>

\* lines 136-149
GetDetectedMarkerPose(id) ==
    /\ lastCall' = [op |-> "pose", arg |-> id, racing |-> pc # "idle",
                    dropped |-> 0]
    /\ _detectedMarkers' = StoreAfterLookup(_detectedMarkers, id)
    /\ IF id \notin DOMAIN _detectedMarkers
       THEN /\ ret' = FALSE
            /\ position' = Unwritten
            /\ rotation' = Unwritten
       ELSE /\ ret' = TRUE
            /\ position' = CopyPose(_detectedMarkers[id]).position
            /\ rotation' = CopyPose(_detectedMarkers[id]).rotation
    /\ _detectedIds' = BlankBuffer
    /\ UNCHANGED <<iterOrder, arUcoMarkerIds, translationVecs, rotationVecs,
                   distCoeffMatrix, radialDistortion, tangentialDistortion,
                   stepVars, maskVars>>

\* DetectMarkers one statement group at a time, for callers that do not
\* serialize: lines 25-93 (detection, pose solve, clear)
DetectMarkersBegin(res, radial, tangential) ==
    /\ pc = "idle"
    /\ arUcoMarkerIds' = [i \in DOMAIN res |-> res[i].id]
    /\ translationVecs' = [i \in DOMAIN res |-> res[i].pose.t]
    /\ rotationVecs' = [i \in DOMAIN res |-> res[i].pose.r]
    /\ radialDistortion' = radial
    /\ tangentialDistortion' = tangential
    /\ distCoeffMatrix' = DistCoeffs(radial, tangential)
    /\ prevStore' = _detectedMarkers
    /\ _detectedMarkers' = ClearStore(_detectedMarkers)
    /\ iterOrder' \in Perms(DOMAIN _detectedMarkers')
    /\ pc' = "loop"
    /\ loopIndex' = 0
    /\ UNCHANGED <<callVars, maskVars>>

\* lines 94-113: one iteration of the loop
DetectMarkersInsert ==
    /\ pc = "loop"
    /\ loopIndex < Len(arUcoMarkerIds)
    /\ LET i == loopIndex + 1
           id == arUcoMarkerIds[i]
       IN  _detectedMarkers' =
             InsertMarker(_detectedMarkers, id,
                          MakeMarker(id, translationVecs[i], rotationVecs[i], i))
    /\ iterOrder' \in Perms(DOMAIN _detectedMarkers')
    /\ loopIndex' = loopIndex + 1
    /\ UNCHANGED <<arUcoMarkerIds, translationVecs, rotationVecs, distCoeffMatrix,
                   radialDistortion, tangentialDistortion, callVars, pc,
                   prevStore, maskVars>>

\* lines 94 (loop exit) and 115
DetectMarkersReturn ==
    /\ pc = "loop"
    /\ loopIndex >= Len(arUcoMarkerIds)
    /\ pc' = "idle"
    /\ loopIndex' = 0
    /\ lastCall' = [op |-> "detect", arg |-> 0, racing |-> FALSE,
                    dropped |-> Dropped(prevStore, _detectedMarkers)]
    /\ ret' = DetectMarkersResult(arUcoMarkerIds)
    /\ _detectedIds' = BlankBuffer
    /\ position' = Unwritten
    /\ rotation' = Unwritten
    /\ UNCHANGED <<storeVars, prevStore, maskVars>>

\* lines 151-169
GetDilatedMask ==
    /\ dilatedMask' = Dilate3x3(mask, maskCols, maskRows)
    /\ maskRet' = ReturnedBuffer(mask, dilatedMask')
    /\ UNCHANGED <<mask, maskCols, maskRows, storeVars, callVars, stepVars>>

\* --------------------------------------------------------- specifications
\* all calls on one detector serialized by the caller
Detect ==
    \E res \in DetectorResults, radial \in RadialInputs,
       tangential \in TangentialInputs :
        DetectMarkers(res, radial, tangential)

QueryMarkerIds == \E size \in Capacities : GetDetectedMarkerIds(size)

QueryMarkerPose == \E id \in QueryIds : GetDetectedMarkerPose(id)

Next == Detect \/ QueryMarkerIds \/ QueryMarkerPose

Spec == Init /\ [][Next]_vars

\* one thread in DetectMarkers, another issuing queries, no serialization
RaceDetectBegin ==
    \E res \in RaceResults, radial \in RadialInputs,
       tangential \in TangentialInputs :
        DetectMarkersBegin(res, radial, tangential)

\* the racing caller always hands in a buffer that holds every decodable id
RaceQueryMarkerIds == GetDetectedMarkerIds(MaxId + 1)

NextRace ==
    \/ RaceDetectBegin
    \/ DetectMarkersInsert
    \/ DetectMarkersReturn
    \/ RaceQueryMarkerIds
    \/ QueryMarkerPose

SpecRace == Init /\ [][NextRace]_vars

\* the camera model for every distortion input
Coeffs == 0..MaxCoeff

InitCamera ==
    /\ InitDetector
    /\ NoMaskYet
    /\ radialDistortion \in [1..3 -> Coeffs]
    /\ tangentialDistortion \in [1..2 -> Coeffs]

CameraResults == ResultsOf(SeqsUpTo(MarkerIds, 1), {0})

DetectWithCamera ==
    \E res \in CameraResults :
        DetectMarkers(res, radialDistortion, tangentialDistortion)

SpecCamera == InitCamera /\ [][DetectWithCamera]_vars

\* the mask routine for every mask
MaskLabels == 0..MaxLabel

InitMask ==
    /\ InitDetector
    /\ NoCameraYet
    /\ maskCols \in 1..MaxDim
    /\ maskRows \in 1..MaxDim
    /\ mask \in [1..(maskRows * maskCols) -> MaskLabels]
    /\ dilatedMask = <<>>
    /\ maskRet = <<>>

SpecMask == InitMask /\ [][GetDilatedMask]_vars

\* ------------------------------------------------------- claim vocabulary
StoredCount == Cardinality(DOMAIN _detectedMarkers)

\* buffer slots the latest call wrote, and the ids it wrote there
WrittenSlots == { idx \in BufferSlots : _detectedIds[idx] # Unwritten }
WrittenIds == { _detectedIds[idx][1] : idx \in WrittenSlots }

\* the highest index at which the latest pass decoded id k
LastIndexOf(k) ==
    CHOOSE i \in DOMAIN arUcoMarkerIds :
        /\ arUcoMarkerIds[i] = k
        /\ \A j \in DOMAIN arUcoMarkerIds : arUcoMarkerIds[j] = k => j <= i

\* the complete result set of the latest pass: one entry per decoded id, with
\* the (float) pose found at the last index that carries the id
LatestPassStore ==
    [k \in Range(arUcoMarkerIds) |->
        [id |-> k,
         position |-> Narrow(translationVecs[LastIndexOf(k)]),
         rotation |-> Narrow(rotationVecs[LastIndexOf(k)])]]

\* ----------------------------------------------------------------- claims
\* C1: GetDetectedMarkerIds fails and writes nothing whenever the int capacity
\* (negative ones included) is smaller than the number of stored markers, and
\* succeeds otherwise.
C1_CapacityContract ==
    lastCall.op = "ids" =>
        IF lastCall.arg < StoredCount
        THEN ret = FALSE /\ _detectedIds = BlankBuffer
        ELSE ret = TRUE

\* C2: GetDetectedMarkerPose(id) fails and leaves both outputs unwritten when id
\* is not a key of the store; otherwise it succeeds and the outputs are the
\* position and rotation the most recent DetectMarkers stored under id.
C2_PoseQueryContract ==
    lastCall.op = "pose" =>
        IF lastCall.arg \notin DOMAIN _detectedMarkers
        THEN ret = FALSE /\ position = Unwritten /\ rotation = Unwritten
        ELSE /\ ret = TRUE
             /\ position = _detectedMarkers[lastCall.arg].position
             /\ rotation = _detectedMarkers[lastCall.arg].rotation
             /\ position = LatestPassStore[lastCall.arg].position
             /\ rotation = LatestPassStore[lastCall.arg].rotation

C2_Witness ==
    /\ lastCall.op = "pose"
    /\ ret = TRUE
    /\ StoredCount >= 2
    /\ position = Narrow(translationVecs[LastIndexOf(lastCall.arg)])
    /\ position # rotation

\* C3: every DetectMarkers call leaves the store with exactly the ids of that
\* call's pass and poses computed in that pass; an id stored before the call
\* that the pass did not decode is gone.
C3_StoreReplaced ==
    [][lastCall'.op = "detect" =>
        /\ DOMAIN _detectedMarkers' = Range(arUcoMarkerIds')
        /\ \A k \in DOMAIN _detectedMarkers \ Range(arUcoMarkerIds') :
              k \notin DOMAIN _detectedMarkers'
        /\ \A k \in DOMAIN _detectedMarkers' :
              \E i \in DOMAIN arUcoMarkerIds' :
                /\ arUcoMarkerIds'[i] = k
                /\ _detectedMarkers'[k].position = Narrow(translationVecs'[i])
                /\ _detectedMarkers'[k].rotation = Narrow(rotationVecs'[i])
    ]_vars

C3_Witness ==
    /\ lastCall.op = "detect"
    /\ lastCall.dropped > 0
    /\ _detectedMarkers # <<>>

\* C4: after GetDetectedMarkerIds succeeds with sufficient capacity the buffer
\* holds exactly StoredCount ids, they are the store's keys, each once, and a
\* GetDetectedMarkerPose that follows for any id written succeeds.
C4_IdsAreKeys ==
    [][ /\ (lastCall'.op = "ids" /\ ret' = TRUE /\ lastCall'.arg >= StoredCount') =>
            /\ WrittenSlots' = 0..(StoredCount' - 1)
            /\ WrittenIds' = DOMAIN _detectedMarkers'
            /\ Cardinality(WrittenIds') = StoredCount'
        /\ (/\ lastCall.op = "ids" /\ ret = TRUE /\ lastCall.arg >= StoredCount
            /\ lastCall'.op = "pose" /\ lastCall'.arg \in WrittenIds) =>
            ret' = TRUE
    ]_vars

C4_Witness ==
    /\ lastCall.op = "ids"
    /\ ret = TRUE
    /\ StoredCount = 2
    /\ lastCall.arg = StoredCount
    /\ WrittenIds = DOMAIN _detectedMarkers

\* C5: GetDilatedMask returns a buffer in which every pixel is the maximum of
\* the input labels over the 3x3 neighbourhood around it, clipped at the border.
C5_ReturnsDilated ==
    dilatedMask # <<>> =>
        \A r \in 0..(maskRows - 1), c \in 0..(maskCols - 1) :
            LET around == { mask[rr * maskCols + cc + 1] :
                              rr \in {r - 1, r, r + 1} \cap 0..(maskRows - 1),
                              cc \in {c - 1, c, c + 1} \cap 0..(maskCols - 1) }
                pixel == maskRet[r * maskCols + c + 1]
            IN  pixel \in around /\ \A label \in around : label <= pixel

\* C6: the store is empty before any pass and after a pass that decoded no
\* marker, non-empty exactly after a pass that decoded one; DetectMarkers
\* returns success either way; on the empty store GetDetectedMarkerIds with
\* capacity 0 succeeds and writes nothing and GetDetectedMarkerPose fails.
C6_EmptyAndPopulated ==
    /\ (_detectedMarkers = <<>>) <=> (Len(arUcoMarkerIds) = 0)
    /\ lastCall.op = "detect" => ret = TRUE
    /\ (_detectedMarkers = <<>> /\ lastCall.op = "ids" /\ lastCall.arg = 0) =>
          (ret = TRUE /\ _detectedIds = BlankBuffer)
    /\ (_detectedMarkers = <<>> /\ lastCall.op = "pose") => ret = FALSE

C6_Witness ==
    /\ lastCall.op = "detect"
    /\ lastCall.dropped > 0
    /\ _detectedMarkers = <<>>
    /\ ret = TRUE

\* C7: a query step, successful or not, leaves the store and its iteration
\* order as they were, and a query repeated with the same argument returns the
\* same value and the same outputs.
C7_QueriesReadOnly ==
    [][lastCall'.op \in {"ids", "pose"} =>
        /\ _detectedMarkers' = _detectedMarkers
        /\ iterOrder' = iterOrder
        /\ lastCall' = lastCall =>
              /\ ret' = ret
              /\ _detectedIds' = _detectedIds
              /\ position' = position
              /\ rotation' = rotation
    ]_vars

C7_Witness ==
    /\ lastCall.op = "pose"
    /\ ret = FALSE
    /\ StoredCount >= 1

\* C8: the distortion vector handed to the pose solver is
\* [r1, r2, t1, t2, r3] for the caller's radial [r1, r2, r3] and tangential
\* [t1, t2].
C8_DistortionOrder ==
    lastCall.op = "detect" =>
        /\ Len(distCoeffMatrix) = 5
        /\ distCoeffMatrix[1] = radialDistortion[1]
        /\ distCoeffMatrix[2] = radialDistortion[2]
        /\ distCoeffMatrix[3] = tangentialDistortion[1]
        /\ distCoeffMatrix[4] = tangentialDistortion[2]
        /\ distCoeffMatrix[5] = radialDistortion[3]

C8_Witness ==
    /\ lastCall.op = "detect"
    /\ radialDistortion[3] # tangentialDistortion[1]
    /\ radialDistortion[3] # tangentialDistortion[2]
    /\ distCoeffMatrix[5] = radialDistortion[3]

\* C9: after a pass the store has one entry per distinct decoded id, and the
\* entry of an id holds the pose found at the highest index carrying that id.
C9_LastWriteWins ==
    /\ StoredCount = Cardinality(Range(arUcoMarkerIds))
    /\ _detectedMarkers = LatestPassStore

C9_Witness ==
    /\ lastCall.op = "detect"
    /\ \E i, j \in DOMAIN arUcoMarkerIds :
          /\ i < j
          /\ arUcoMarkerIds[i] = arUcoMarkerIds[j]
          /\ _detectedMarkers[arUcoMarkerIds[j]].position = Narrow(translationVecs[j])
          /\ Narrow(translationVecs[i]) # Narrow(translationVecs[j])

\* C10: a query made while no DetectMarkers is in flight sees the complete
\* result set of the latest finished pass (the empty store before the first);
\* a query made during a pass can see a store that is neither the previous
\* result set nor the new one (C10_Witness).
C10_SerializedQueriesSeeWholePass ==
    (pc = "idle" /\ lastCall.racing = FALSE) =>
        /\ lastCall.op = "ids" =>
              /\ ret = TRUE
              /\ WrittenIds = DOMAIN LatestPassStore
              /\ Cardinality(WrittenSlots) = Cardinality(DOMAIN LatestPassStore)
        /\ lastCall.op = "pose" =>
              /\ ret = (lastCall.arg \in DOMAIN LatestPassStore)
              /\ ret = TRUE =>
                    /\ position = LatestPassStore[lastCall.arg].position
                    /\ rotation = LatestPassStore[lastCall.arg].rotation

C10_Witness ==
    /\ pc = "loop"
    /\ lastCall.racing = TRUE
    /\ lastCall.op = "ids"
    /\ ret = TRUE
    /\ WrittenIds # {}
    /\ WrittenIds # DOMAIN prevStore
    /\ WrittenIds # DOMAIN LatestPassStore

====
